---------------------------- MODULE Spec2Model ----------------------------
(***************************************************************************)
(* Model of the EVM transfer monitor: head loop (EVMMonitor), transfer     *)
(* classifier (TransactionProcessor / TokenParser), pending index and      *)
(* confirmation tracker (ConfirmationManager), the deposit / notification   *)
(* tables (TransactionAdapter, models) and webhook delivery                 *)
(* (NotificationService, NotificationScheduler).                            *)
(*                                                                         *)
(* asyncio tasks are modelled as a bag of task records; every task step is *)
(* the code between two awaits that touch shared state.  The database is   *)
(* modelled at commit granularity: a session's writes become visible to    *)
(* other sessions when the session commits.  Wall-clock time is kept as    *)
(* saturating ages (now - timestamp), which is all the code compares.      *)
(***************************************************************************)
EXTENDS Integers, Sequences, FiniteSets, Bags, TLC

\* ------------------------------------------------------------------ bounds
\* highest block number the chain reaches
MaxHead == 3
\* number of out-of-band events in a run: retreats of the reported head,
\* calls of process_pending_notifications_async and runs of
\* NotificationScheduler.process_pending_notifications
MaxEvents == 1
\* required_confirmations (K), scaled down from the configured 10
required_confirmations == 2
\* retry_times of the webhook (max_retry_attempts), scaled down from 3
max_retry_attempts == 2
\* confirmation_check_interval in clock ticks (configured: 10 s)
confirmation_check_interval == 1
\* cache_ttl in clock ticks (configured: 1.5 s)
cache_ttl == 1
\* transaction_timeout in clock ticks (configured: 300 s)
transaction_timeout == 2

\* ------------------------------------------------------- program constants
\* column default of NotificationRecord.max_attempts
DefaultMaxAttempts == 3
\* the only HTTP status send_notification_async accepts as success
HttpOk == 200

\* Python None for an integer-valued field
NoBlock == -1
\* Python None / empty string for an address or calldata
NoAddr == <<>>
\* no row found by a query
NoRow == 0

\* ---------------------------------------------------------------- strings
Rep(c, n) == [i \in 1..n |-> c]

LowerChar(c) ==
  CASE c = "A" -> "a" [] c = "B" -> "b" [] c = "C" -> "c" [] c = "D" -> "d"
    [] c = "E" -> "e" [] c = "F" -> "f" [] c = "X" -> "x" [] OTHER -> c

\* str.lower()
Lower(s) == [i \in DOMAIN s |-> LowerChar(s[i])]

HexPrefix == <<"0", "x">>
\* externally owned accounts, in lower and upper hex spelling
AddrA == HexPrefix \o Rep("a", 40)
AddrAUp == HexPrefix \o Rep("A", 40)
AddrB == HexPrefix \o Rep("b", 40)
AddrBUp == HexPrefix \o Rep("B", 40)

\* monitor strategies
LARGE_AMOUNT == "large_amount"
WATCH_ADDRESS == "watch_address"

\* chain native symbol (config token_name)
token_name == "BNB"

VARIABLES
  head,                   \* block number the RPC endpoint reports now
  head_high,              \* highest block number the endpoint has reported
  reorgs,                 \* how often the reported head has retreated
  chain,                  \* block number -> sequence of raw transactions
  monitor_strategy,       \* MonitorConfig.monitor_strategy
  watch_addresses_set,    \* MonitorConfig._watch_addresses_set
  thresholds,             \* MonitorConfig.thresholds, in wei
  cached_block_number,    \* RPCManager.cached_block_number
  cache_age,              \* now - RPCManager.cache_time, saturating
  last_block,             \* EVMMonitor.last_block
  loop_pc,                \* position of _monitoring_loop in its iteration
  pending_by_block,       \* ConfirmationManager.pending_by_block (dict order)
  check_age,              \* now - last_check_time, saturating
  transactions_found,     \* TransactionProcessor.transactions_found['total']
  pending_added,          \* appends of add_pending_transaction so far
  confirmed_transactions, \* ConfirmationManager.confirmed_transactions
  timeout_transactions,   \* ConfirmationManager.timeout_transactions
  notifications_sent,     \* ConfirmationManager.notifications_sent
  notification_failures,  \* ConfirmationManager.notification_failures
  tasks,                  \* bag of live asyncio tasks
  deposit_records,        \* committed rows of deposit_records
  notification_records,   \* committed rows of notification_records
  ppn_calls,              \* calls of process_pending_notifications_async
  sched,                  \* NotificationScheduler.process_pending_notifications
  delivered,              \* tx_hash -> POSTs answered 200 by the webhook
  notify_handoffs,        \* tx_hash -> _send_notification_async spawned on confirm
  ingest_log,             \* classifier decisions taken so far
  save_returns,           \* what save_transaction_info_async has returned so far
  reorg_warned,           \* blocks check_confirmations has warned about (conf <= 0)
  bus_log,                \* bus messages processed so far, with their outcome
  is_running,             \* EVMMonitor.is_running
  watch_addresses,        \* MonitorConfig.watch_addresses (the list)
  last_call,              \* the last call of the configuration API
  shutdown                \* position of graceful_shutdown, and the pending
                          \* index, the head and the block in work when it
                          \* started

vars == <<head, head_high, reorgs, chain, monitor_strategy, watch_addresses_set, thresholds,
          cached_block_number, cache_age, last_block, loop_pc,
          pending_by_block, check_age, transactions_found, pending_added,
          confirmed_transactions, timeout_transactions, notifications_sent,
          notification_failures, tasks, deposit_records, notification_records,
          ppn_calls, sched, delivered, notify_handoffs, ingest_log, save_returns, reorg_warned,
          bus_log, is_running, shutdown, watch_addresses, last_call>>

envVars == <<head, head_high, reorgs, chain>>
cfgVars == <<monitor_strategy, watch_addresses_set, thresholds>>
cacheVars == <<cached_block_number, cache_age>>
shutVars == <<is_running, shutdown>>
apiVars == <<watch_addresses, last_call>>
dbVars == <<deposit_records, notification_records>>
statVars == <<transactions_found, pending_added, confirmed_transactions, timeout_transactions,
              notifications_sent, notification_failures>>

Blocks == 1..MaxHead

\* out-of-band events so far
Events == reorgs + ppn_calls + sched.runs

\* ------------------------------------------------------------ token parser
\* TokenParser.TRANSFER_SIGNATURE without its 0x prefix
TRANSFER_SIGNATURE == <<"a", "9", "0", "5", "9", "c", "b", "b">>
\* TokenParser.contracts: the USDT contract of the chain
UsdtContract == HexPrefix \o Rep("c", 40)
UsdtContractUp == HexPrefix \o Rep("C", 40)

HexDigits == {"0", "1", "2", "3", "4", "5", "6", "7", "8", "9",
              "a", "b", "c", "d", "e", "f"}
HexDigitVal(c) ==
  CASE c = "0" -> 0 [] c = "1" -> 1 [] c = "2" -> 2 [] c = "3" -> 3
    [] c = "4" -> 4 [] c = "5" -> 5 [] c = "6" -> 6 [] c = "7" -> 7
    [] c = "8" -> 8 [] c = "9" -> 9 [] c = "a" -> 10 [] c = "b" -> 11
    [] c = "c" -> 12 [] c = "d" -> 13 [] c = "e" -> 14 [] c = "f" -> 15

\* a non-empty run of hex digits
IsHex(s) == Len(s) > 0 /\ \A i \in DOMAIN s : LowerChar(s[i]) \in HexDigits

\* int(s, 16) of Python on strings over hex digits, "x", "_" and other
\* letters: an optional 0x prefix is skipped, then come hex digits in which
\* single underscores may separate the digits and may follow the prefix
Int16Body(s) ==
  IF Len(s) >= 2 /\ s[1] = "0" /\ LowerChar(s[2]) = "x" THEN SubSeq(s, 3, Len(s)) ELSE s

Int16GroupsOk(b, prefixed) ==
  /\ Len(b) > 0
  /\ \A i \in DOMAIN b : LowerChar(b[i]) \in HexDigits \/ b[i] = "_"
  /\ b[Len(b)] # "_"
  /\ (prefixed \/ b[1] # "_")
  /\ \A i \in 1..(Len(b) - 1) : ~(b[i] = "_" /\ b[i + 1] = "_")

\* int(s, 16) succeeds (no ValueError)
int16_ok(s) == Int16GroupsOk(Int16Body(s), Int16Body(s) # s)

NotUnderscore(c) == c # "_"

\* str.zfill(n)
ZFill(d, n) == IF Len(d) >= n THEN d ELSE Rep("0", n - Len(d)) \o d

\* int(s, 16) as 64 lower-case hex digits
int16_hex(s) == ZFill(Lower(SelectSeq(Int16Body(s), NotUnderscore)), 64)

\* s[a:b] of Python, on 1-based sequences
Slice(s, a, b) ==
  LET hi == IF b < Len(s) THEN b ELSE Len(s)
  IN IF a >= hi THEN <<>> ELSE SubSeq(s, a + 1, hi)

\* padding on the left instead of the right
RJust(s, n, c) == IF Len(s) >= n THEN s ELSE Rep(c, n - Len(s)) \o s

\* str.ljust(n, c)
LJust(s, n, c) == IF Len(s) >= n THEN s ELSE s \o Rep(c, n - Len(s))

StartsWith(s, p) == Len(s) >= Len(p) /\ SubSeq(s, 1, Len(p)) = p

\* a 256-bit amount is kept as its 64 lower-case hex digits: int(x, 16) is
\* one-to-one on them and >= on the integers is the lexicographic order
RECURSIVE HexGE(_, _)
HexGE(x, y) ==
  IF x = <<>> THEN TRUE
  ELSE IF HexDigitVal(Head(x)) > HexDigitVal(Head(y)) THEN TRUE
  ELSE IF HexDigitVal(Head(x)) < HexDigitVal(Head(y)) THEN FALSE
  ELSE HexGE(Tail(x), Tail(y))

\* TokenParser._is_valid_address
_is_valid_address(address) ==
  /\ Len(address) = 42
  /\ StartsWith(address, HexPrefix)
  /\ int16_ok(Slice(address, 2, 42))

\* TokenParser.is_token_contract: symbol of the contract at address, "" if none
is_token_contract(address) ==
  IF address = NoAddr THEN ""
  ELSE IF Lower(UsdtContract) = Lower(address) THEN "USDT"
  ELSE ""

\* result None of parse_erc20_transfer / process_transaction
NoInfo == [ok |-> FALSE]

\* the amount parameter: hex_data[72:136], or a shorter rest right-padded
\* with zeros
AmountHex(hex_data) ==
  IF Len(hex_data) >= 136 THEN Slice(hex_data, 72, 136)
  ELSE LJust(Slice(hex_data, 72, Len(hex_data)), 64, "0")

\* parse_erc20_transfer once both parameters are cut out of the calldata
ParseParams(tx, to_address, amount_hex) ==
  IF ~int16_ok(amount_hex) THEN NoInfo
  ELSE IF ~_is_valid_address(to_address) THEN NoInfo
  ELSE [ok |-> TRUE, from |-> tx.from, to |-> Lower(to_address),
        raw_amount_wei |-> int16_hex(amount_hex), token |-> "USDT",
        contract |-> Lower(UsdtContract)]

\* parse_erc20_transfer on the calldata without its 0x prefix
ParseHexData(tx, hex_data) ==
  IF Len(hex_data) < 72 THEN NoInfo
  ELSE IF Lower(Slice(hex_data, 0, 8)) # Lower(TRANSFER_SIGNATURE) THEN NoInfo
  ELSE IF Len(hex_data) = 72 THEN NoInfo
  ELSE ParseParams(tx, HexPrefix \o Slice(Slice(hex_data, 8, 72), 24, 64),
                   AmountHex(hex_data))

\* the calldata with a 0x prefix added when it has none
NormalizeInput(input) == IF StartsWith(input, HexPrefix) THEN input ELSE HexPrefix \o input

\* TokenParser.parse_erc20_transfer for the USDT contract
parse_erc20_transfer(tx) ==
  IF tx.to = NoAddr \/ Lower(tx.to) # Lower(UsdtContract) THEN NoInfo
  ELSE IF tx.input = <<>> THEN NoInfo
  ELSE ParseHexData(tx, Slice(NormalizeInput(tx.input), 2, Len(tx.input) + 2))

\* --------------------------------------------------------- monitor config
\* mutant of is_watched_address: the address is looked up as spelled
is_watched_address_exact(address) == address \in watch_addresses_set

\* MonitorConfig.is_watched_address
is_watched_address(address) == Lower(address) \in watch_addresses_set

\* the comparison with the threshold made strict
TokenAboveThreshold(raw_amount_wei, symbol) ==
  IF monitor_strategy # LARGE_AMOUNT THEN TRUE
  ELSE IF symbol \notin DOMAIN thresholds THEN FALSE
  ELSE /\ HexGE(raw_amount_wei, thresholds[symbol])
       /\ raw_amount_wei # thresholds[symbol]

\* the token transfer reaches its threshold: amount >= get_threshold(symbol),
\* where a symbol without threshold gets float('inf')
TokenAtLeastThreshold(raw_amount_wei, symbol) ==
  IF monitor_strategy # LARGE_AMOUNT THEN TRUE
  ELSE IF symbol \notin DOMAIN thresholds THEN FALSE
  ELSE HexGE(raw_amount_wei, thresholds[symbol])

\* token_amount < get_threshold(token_name) for the native transfer
NativeBelowThreshold(wei) ==
  IF monitor_strategy # LARGE_AMOUNT THEN wei < 0
  ELSE IF token_name \notin DOMAIN thresholds THEN TRUE
  ELSE wei < thresholds[token_name]

\* -------------------------------------------------- transaction processor
\* TransactionInfo.get_from_address / get_to_address
get_from_address(info) == IF info.token_info.ok THEN info.token_info.from ELSE info.tx.from
get_to_address(info) == IF info.token_info.ok THEN info.token_info.to ELSE info.tx.to

\* TransactionProcessor._process_native_transaction: the TransactionInfo or None
_process_native_transaction(tx) ==
  IF tx.value = 0 THEN NoInfo
  ELSE IF monitor_strategy = LARGE_AMOUNT /\ NativeBelowThreshold(tx.value) THEN NoInfo
  ELSE IF monitor_strategy = WATCH_ADDRESS
          /\ (tx.to = NoAddr \/ ~is_watched_address(tx.to)) THEN NoInfo
  ELSE IF monitor_strategy \notin {LARGE_AMOUNT, WATCH_ADDRESS} THEN NoInfo
  ELSE [ok |-> TRUE, hash |-> tx.hash, tx |-> tx, tx_type |-> token_name,
        token_info |-> NoInfo]

\* the strategy test of _process_token_transaction on a parsed transfer
should_process(to_address, from_address, raw_amount_wei) ==
  IF monitor_strategy = LARGE_AMOUNT
  THEN TokenAtLeastThreshold(raw_amount_wei, "USDT") /\ to_address # NoAddr
  ELSE IF monitor_strategy = WATCH_ADDRESS
  THEN to_address # NoAddr /\ is_watched_address(to_address)
       /\ to_address # from_address
  ELSE FALSE

\* _process_token_transaction once the calldata is parsed
ClassifyToken(tx, token_info) ==
  IF ~token_info.ok THEN NoInfo
  ELSE IF should_process(Lower(token_info.to), Lower(token_info.from),
                         token_info.raw_amount_wei)
  THEN [ok |-> TRUE, hash |-> tx.hash, tx |-> tx, tx_type |-> "USDT",
        token_info |-> token_info]
  ELSE NoInfo

\* TransactionProcessor._process_token_transaction: the TransactionInfo or None
_process_token_transaction(tx) ==
  IF tx.to = NoAddr THEN NoInfo
  ELSE IF is_token_contract(tx.to) = "" THEN NoInfo
  ELSE ClassifyToken(tx, parse_erc20_transfer(tx))

\* TransactionProcessor.process_transaction
process_transaction(tx) ==
  IF _process_native_transaction(tx).ok THEN _process_native_transaction(tx)
  ELSE _process_token_transaction(tx)


\* ------------------------------------------------------------------ tasks
TxHashes == {"h1", "h2"}

NewTask(kind, hash, confirmations, info, items) ==
  [kind |-> kind, hash |-> hash, confirmations |-> confirmations, pc |-> "start",
   attempt |-> 0, rec |-> NoRow, ok |-> FALSE, info |-> info, items |-> items,
   upd |-> <<>>, status |-> 0]

Spawn(bag, t) == bag (+) SetToBag({t})
Finish(bag, t) == bag (-) SetToBag({t})
Step(bag, t, u) == (bag (-) SetToBag({t})) (+) SetToBag({u})
LiveTasks == BagToSet(tasks)

Inc(f, h) == [f EXCEPT ![h] = @ + 1]
Sat(n, cap) == IF n < cap THEN n + 1 ELSE cap

\* --------------------------------------------------------------- database
\* index of the deposit_records row with this tx_hash, NoRow if there is none
RowOf(rows, h) ==
  IF \E i \in DOMAIN rows : rows[i].tx_hash = h
  THEN CHOOSE i \in DOMAIN rows : rows[i].tx_hash = h
  ELSE NoRow

RECURSIVE SelectIds(_, _, _)
\* ids of the rows, in table order, that a get_pending_notifications query returns
SelectIds(rows, i, required) ==
  IF i > Len(rows) THEN <<>>
  ELSE IF /\ rows[i].status = "confirmed"
          /\ rows[i].confirmations >= required
          /\ ~rows[i].notification_generated
       THEN <<i>> \o SelectIds(rows, i + 1, required)
       ELSE SelectIds(rows, i + 1, required)

\* TransactionAdapter.get_pending_notifications_async
get_pending_notifications_async(required) == SelectIds(deposit_records, 1, required)

\* dict.get(key, default)
DictGet(d, key, default) == IF key \in DOMAIN d THEN d[key] ELSE default

\* TransactionAdapter._handle_token_transaction: token_address and
\* token_symbol of the row
_handle_token_transaction(token_info) ==
  [token_address |-> DictGet(token_info, "contract_address", NoAddr),
   token_symbol |-> DictGet(token_info, "symbol", "UNKNOWN")]

\* TransactionAdapter._handle_native_transaction
_handle_native_transaction == [token_address |-> NoAddr, token_symbol |-> "ETH"]

\* the asset columns of the row: is_token_transaction() and token_info
AssetColumns(info) ==
  IF info.token_info.ok THEN _handle_token_transaction(info.token_info)
  ELSE _handle_native_transaction

\* the DepositRecord that save_transaction_info_async builds for a transfer
NewDepositRecord(info, id) ==
  [id |-> id, tx_hash |-> info.hash, block_number |-> info.block_number,
   from_address |-> get_from_address(info), to_address |-> get_to_address(info),
   status |-> "pending", confirmations |-> 0, notification_generated |-> FALSE,
   token_symbol |-> AssetColumns(info).token_symbol,
   token_address |-> AssetColumns(info).token_address,
   user_id |-> Lower(get_to_address(info))]

\* ConfirmationManager._build_notification_data: the webhook payload
_build_notification_data(deposit_record, confirmations) ==
  [type |-> "deposit", tx_hash |-> deposit_record.tx_hash,
   block_number |-> deposit_record.block_number,
   from_address |-> deposit_record.from_address,
   to_address |-> deposit_record.to_address,
   token_symbol |-> deposit_record.token_symbol,
   token_address |-> deposit_record.token_address,
   confirmations |-> confirmations, user_id |-> deposit_record.user_id]

\* ------------------------------------------------------------ environment
\* the chain produces a block
HeadAdvance ==
  /\ head < MaxHead
  /\ head' = head + 1
  /\ head_high' = IF head' > head_high THEN head' ELSE head_high
  /\ UNCHANGED <<reorgs, chain, cfgVars, cacheVars, last_block, loop_pc, pending_by_block,
                 check_age, statVars, tasks, dbVars, ppn_calls, sched, delivered,
                 notify_handoffs, ingest_log, save_returns, reorg_warned, bus_log, shutVars, apiVars>>

\* the RPC endpoint reports a lower head (reorganisation, lagging node)
HeadRetreat ==
  /\ Events < MaxEvents
  /\ \E h \in 0..(head - 1) : head' = h
  /\ reorgs' = reorgs + 1
  /\ UNCHANGED <<head_high, chain, cfgVars, cacheVars, last_block, loop_pc, pending_by_block,
                 check_age, statVars, tasks, dbVars, ppn_calls, sched, delivered,
                 notify_handoffs, ingest_log, save_returns, reorg_warned, bus_log, shutVars, apiVars>>

AgeTxs(txs) == [i \in DOMAIN txs |-> [txs[i] EXCEPT !.age = Sat(@, transaction_timeout + 1)]]

\* one unit of wall-clock time passes
Tick ==
  /\ cache_age' = Sat(cache_age, cache_ttl + 1)
  /\ check_age' = Sat(check_age, confirmation_check_interval)
  /\ pending_by_block' =
       [i \in DOMAIN pending_by_block |->
          [pending_by_block[i] EXCEPT !.txs = AgeTxs(@)]]
  /\ \/ cache_age' # cache_age
     \/ check_age' # check_age
     \/ pending_by_block' # pending_by_block
  /\ UNCHANGED <<envVars, cfgVars, cached_block_number, last_block, loop_pc, statVars,
                 tasks, dbVars, ppn_calls, sched, delivered, notify_handoffs, ingest_log, save_returns, reorg_warned, bus_log, shutVars, apiVars>>

\* -------------------------------------------------------------- head loop
\* RPCManager.get_cached_block_number: the cache is refreshed when it is empty
\* or older than cache_ttl
CacheMiss == cached_block_number = NoBlock \/ cache_age > cache_ttl

\* ConfirmationManager.add_pending_transaction
add_pending_transaction(pend, e) ==
  IF e.block_number = 0 THEN pend
  ELSE IF \E i \in DOMAIN pend : pend[i].block_number = e.block_number
  THEN LET i == CHOOSE j \in DOMAIN pend : pend[j].block_number = e.block_number
       IN [pend EXCEPT ![i].txs = Append(@, e)]
  ELSE Append(pend, [block_number |-> e.block_number, txs |-> <<e>>])

\* TransactionInfo of an accepted transaction, as the save task receives it
FullInfo(tx, info, n) ==
  [ok |-> TRUE, hash |-> tx.hash, tx |-> tx, tx_type |-> info.tx_type,
   token_info |-> info.token_info, block_number |-> n]

\* the classifier's decision on a transaction, for the ingest log
Decision(tx, saved, inserted) ==
  [tx |-> tx, saved |-> saved, inserted |-> inserted,
   strategy |-> monitor_strategy, watch |-> watch_addresses_set,
   thresholds |-> thresholds, parsed |-> parse_erc20_transfer(tx)]

\* _process_single_block on an accepted transaction: the save task is already
\* spawned; tx['to'].lower() raises on a missing recipient and ends the block;
\* a transaction whose tx.from equals tx.to is skipped; else it is inserted
\* in the pending index
IngestAccepted(st, tx, n, save) ==
  IF tx.to = NoAddr
  THEN [st EXCEPT !.found = @ + 1, !.spawned = Spawn(@, save),
                  !.log = @ \cup {Decision(tx, TRUE, FALSE)}, !.aborted = TRUE]
  ELSE IF Lower(tx.from) = Lower(tx.to)
  THEN [st EXCEPT !.found = @ + 1, !.spawned = Spawn(@, save),
                  !.log = @ \cup {Decision(tx, TRUE, FALSE)}]
  ELSE [st EXCEPT !.found = @ + 1, !.spawned = Spawn(@, save),
                  !.log = @ \cup {Decision(tx, TRUE, TRUE)},
                  !.added = IF n = 0 THEN @ ELSE @ + 1,
                  !.pending = add_pending_transaction(@,
                                [hash |-> tx.hash, block_number |-> n, age |-> 0,
                                 tx_type |-> save.info.tx_type])]

\* one transaction of _process_single_block, given process_transaction's result
IngestClassified(st, tx, n, info) ==
  IF st.aborted THEN st
  ELSE IF ~info.ok THEN [st EXCEPT !.log = @ \cup {Decision(tx, FALSE, FALSE)}]
  ELSE IngestAccepted(st, tx, n, NewTask("save", tx.hash, 0, FullInfo(tx, info, n), <<>>))

\* one transaction of _process_single_block
IngestTx(st, tx, n) == IngestClassified(st, tx, n, process_transaction(tx))

RECURSIVE IngestTxs(_, _, _, _)
IngestTxs(st, txs, i, n) ==
  IF i > Len(txs) THEN st ELSE IngestTxs(IngestTx(st, txs[i], n), txs, i + 1, n)

\* EVMMonitor._process_single_block; a block whose fetch fails is skipped
_process_single_block(st, n, fetched) ==
  IF ~fetched THEN st
  ELSE [IngestTxs(st, chain[n], 1, n) EXCEPT !.aborted = FALSE]

RECURSIVE IngestBlocks(_, _, _, _)
IngestBlocks(st, n, last, failed) ==
  IF n > last THEN st
  ELSE IngestBlocks(_process_single_block(st, n, n \notin failed), n + 1, last, failed)

\* the effects of the ingested blocks on the monitor's state
CommitIngest(st) ==
  /\ pending_by_block' = st.pending
  /\ transactions_found' = st.found
  /\ pending_added' = st.added
  /\ tasks' = st.spawned
  /\ ingest_log' = st.log

\* EVMMonitor._process_new_blocks: read the head, run every block of
\* (last_block, current_block], return current_block
_process_new_blocks(current_block, failed) ==
  /\ CommitIngest(IngestBlocks([pending |-> pending_by_block,
                                found |-> transactions_found, added |-> pending_added,
                                spawned |-> tasks,
                                log |-> ingest_log, aborted |-> FALSE],
                               last_block + 1, current_block, failed))
  /\ last_block' = current_block

\* a failed head fetch after which the cursor moves to the cached head
_process_new_blocks_returns_cached ==
  /\ last_block' = IF cached_block_number > last_block THEN cached_block_number
                   ELSE last_block
  /\ UNCHANGED <<cacheVars, pending_by_block, transactions_found, pending_added, tasks, ingest_log>>

\* _process_new_blocks when eth_blockNumber fails: the except branch returns
\* the last_block it was given
_process_new_blocks_head_failed ==
  UNCHANGED <<cacheVars, last_block, pending_by_block, transactions_found, pending_added,
              tasks, ingest_log>>

ProcessNewBlocks ==
  /\ is_running
  /\ loop_pc = "blocks"
  /\ loop_pc' = "confirm"
  /\ \/ /\ CacheMiss
        /\ \/ _process_new_blocks_head_failed
           \/ /\ cached_block_number' = head
              /\ cache_age' = 0
              /\ \E failed \in SUBSET ((last_block + 1)..head) :
                   _process_new_blocks(head, failed)
     \/ /\ ~CacheMiss
        /\ UNCHANGED cacheVars
        /\ \E failed \in SUBSET ((last_block + 1)..cached_block_number) :
             _process_new_blocks(cached_block_number, failed)
  /\ UNCHANGED <<envVars, cfgVars, check_age, confirmed_transactions,
                 timeout_transactions, notifications_sent, notification_failures,
                 dbVars, ppn_calls, sched, delivered, notify_handoffs, save_returns, reorg_warned, bus_log, shutVars, apiVars>>

\* ---------------------------------------------------- confirmation manager
\* mutant of IsConfirmed: the comparison is off by one
IsConfirmedEarly(confirmations) == confirmations >= required_confirmations - 1

\* check_confirmations: the block has reached the required confirmations
IsConfirmed(confirmations) == confirmations >= required_confirmations

RECURSIVE ConfirmedItems(_, _, _)
\* the (tx_info, confirmations) pairs check_confirmations collects, in the
\* iteration order of the pending_by_block dict
ConfirmedItems(pend, i, current_block) ==
  IF i > Len(pend) THEN <<>>
  ELSE LET confirmations == current_block - pend[i].block_number + 1
           here == IF IsConfirmed(confirmations)
                   THEN [j \in DOMAIN pend[i].txs |->
                           [hash |-> pend[i].txs[j].hash,
                            confirmations |-> confirmations]]
                   ELSE <<>>
       IN here \o ConfirmedItems(pend, i + 1, current_block)

\* mutant of Unconfirmed: blocks the head has fallen below are deleted too
UnconfirmedAboveHead(pend, current_block) ==
  SelectSeq(pend, LAMBDA b : /\ ~IsConfirmed(current_block - b.block_number + 1)
                             /\ current_block - b.block_number + 1 > 0)

\* pending_by_block after the confirmed blocks are deleted
\* the index with the confirmed blocks left in place
UnconfirmedKeepsBlocks(pend, current_block) == pend

Unconfirmed(pend, current_block) ==
  SelectSeq(pend, LAMBDA b : ~IsConfirmed(current_block - b.block_number + 1))

\* the blocks of the 'elif confirmations <= 0' branch, which logs a warning
WarnedBlocks(pend, current_block) ==
  {pend[i].block_number : i \in {k \in DOMAIN pend :
      /\ ~IsConfirmed(current_block - pend[k].block_number + 1)
      /\ current_block - pend[k].block_number + 1 <= 0}}

\* the body of check_confirmations once the head is known
Confirm(current_block) ==
  LET items == ConfirmedItems(pending_by_block, 1, current_block)
  IN /\ pending_by_block' = Unconfirmed(pending_by_block, current_block)
     /\ confirmed_transactions' = confirmed_transactions + Len(items)
     /\ tasks' = IF Len(items) > 0
                 THEN Spawn(tasks, NewTask("proc", "", 0, NoInfo, items))
                 ELSE tasks
     /\ check_age' = 0
     /\ reorg_warned' = reorg_warned \cup WarnedBlocks(pending_by_block, current_block)

\* ConfirmationManager.check_confirmations
check_confirmations ==
  /\ IF check_age < confirmation_check_interval \/ pending_by_block = <<>>
     THEN UNCHANGED <<cacheVars, pending_by_block, confirmed_transactions, tasks,
                      check_age, reorg_warned>>
     ELSE \/ /\ CacheMiss
             /\ \/ \* eth_blockNumber fails: return before anything is touched
                   UNCHANGED <<cacheVars, pending_by_block, confirmed_transactions,
                               tasks, check_age, reorg_warned>>
                \/ /\ cached_block_number' = head
                   /\ cache_age' = 0
                   /\ Confirm(head)
          \/ /\ ~CacheMiss
             /\ UNCHANGED cacheVars
             /\ Confirm(cached_block_number)
  /\ UNCHANGED <<envVars, cfgVars, last_block, transactions_found, pending_added,
                 timeout_transactions, notifications_sent, notification_failures,
                 dbVars, ppn_calls, sched, delivered, notify_handoffs, ingest_log,
                 save_returns, bus_log, apiVars>>

\* the call of check_confirmations in _monitoring_loop
CheckConfirmations ==
  /\ loop_pc = "confirm"
  /\ loop_pc' = "maintenance"
  /\ check_confirmations
  /\ UNCHANGED shutVars

\* a transfer is kept up to and including the timeout
FreshAtTimeout(e) == e.age <= transaction_timeout

\* current_time - tx_info.found_at < self.config.transaction_timeout
Fresh(e) == e.age < transaction_timeout

RECURSIVE CountStale(_, _)
CountStale(pend, i) ==
  IF i > Len(pend) THEN 0
  ELSE Len(SelectSeq(pend[i].txs, LAMBDA e : ~Fresh(e))) + CountStale(pend, i + 1)

\* ConfirmationManager.cleanup_timeout_transactions: the index afterwards
cleanup_timeout_transactions(pend) ==
  SelectSeq([i \in DOMAIN pend |-> [pend[i] EXCEPT !.txs = SelectSeq(@, Fresh)]],
            LAMBDA b : b.txs # <<>>)

\* EVMMonitor._periodic_maintenance: the purge runs when the wall clock is
\* in the first second of a minute
PeriodicMaintenance ==
  /\ loop_pc = "maintenance"
  /\ loop_pc' = "blocks"
  /\ \/ UNCHANGED <<pending_by_block, timeout_transactions>>
     \/ /\ pending_by_block' = cleanup_timeout_transactions(pending_by_block)
        /\ timeout_transactions' = timeout_transactions + CountStale(pending_by_block, 1)
  /\ UNCHANGED <<envVars, cfgVars, cacheVars, last_block, check_age, transactions_found, pending_added,
                 confirmed_transactions, notifications_sent, notification_failures,
                 tasks, dbVars, ppn_calls, sched, delivered, notify_handoffs, ingest_log, save_returns, reorg_warned, bus_log, shutVars, apiVars>>

\* --------------------------------------------------------------- save task
\* the value save_transaction_info_async returns: the row found by its
\* SELECT, the row it has added, or None (NoRow) after an exception
SaveReturn(h, existing, row) == [hash |-> h, existing |-> existing, returned |-> row]

\* a save that writes the transfer over the row it finds
SaveSelectUpsert(t) ==
  /\ t.kind = "save" /\ t.pc = "start"
  /\ tasks' = IF RowOf(deposit_records, t.hash) # NoRow
              THEN Finish(tasks, t)
              ELSE Step(tasks, t, [t EXCEPT !.pc = "insert"])
  /\ save_returns' = IF RowOf(deposit_records, t.hash) # NoRow
                     THEN save_returns \cup {SaveReturn(t.hash, TRUE,
                                                        RowOf(deposit_records, t.hash))}
                     ELSE save_returns
  /\ deposit_records' =
       IF RowOf(deposit_records, t.hash) # NoRow
       THEN [deposit_records EXCEPT ![RowOf(deposit_records, t.hash)] =
               NewDepositRecord(t.info, RowOf(deposit_records, t.hash))]
       ELSE deposit_records
  /\ UNCHANGED <<envVars, cfgVars, cacheVars, last_block, loop_pc, pending_by_block,
                 check_age, statVars, notification_records, ppn_calls, sched, delivered,
                 notify_handoffs, ingest_log, reorg_warned, bus_log, shutVars, apiVars>>

\* TransactionAdapter.save_transaction_info_async, the SELECT: an existing
\* row is returned unchanged
SaveSelect(t) ==
  /\ t.kind = "save" /\ t.pc = "start"
  /\ tasks' = IF RowOf(deposit_records, t.hash) # NoRow
              THEN Finish(tasks, t)
              ELSE Step(tasks, t, [t EXCEPT !.pc = "insert"])
  /\ save_returns' = IF RowOf(deposit_records, t.hash) # NoRow
                     THEN save_returns \cup {SaveReturn(t.hash, TRUE,
                                                        RowOf(deposit_records, t.hash))}
                     ELSE save_returns
  /\ UNCHANGED <<envVars, cfgVars, cacheVars, last_block, loop_pc, pending_by_block,
                 check_age, statVars, dbVars, ppn_calls, sched, delivered,
                 notify_handoffs, ingest_log, reorg_warned, bus_log, shutVars, apiVars>>

\* an INSERT that replaces the row of the same tx_hash
SaveInsertReplace(t) ==
  /\ t.kind = "save" /\ t.pc = "insert"
  /\ tasks' = Finish(tasks, t)
  /\ deposit_records' =
       IF RowOf(deposit_records, t.hash) # NoRow
       THEN [deposit_records EXCEPT ![RowOf(deposit_records, t.hash)] =
               NewDepositRecord(t.info, RowOf(deposit_records, t.hash))]
       ELSE Append(deposit_records, NewDepositRecord(t.info, Len(deposit_records) + 1))
  /\ save_returns' =
       save_returns \cup {SaveReturn(t.hash, FALSE,
                                     IF RowOf(deposit_records, t.hash) # NoRow
                                     THEN RowOf(deposit_records, t.hash)
                                     ELSE Len(deposit_records) + 1)}
  /\ UNCHANGED <<envVars, cfgVars, cacheVars, last_block, loop_pc, pending_by_block,
                 check_age, statVars, notification_records, ppn_calls, sched,
                 delivered, notify_handoffs, ingest_log, reorg_warned, bus_log, shutVars, apiVars>>

\* the INSERT on a table without the UNIQUE index on tx_hash
SaveInsertNoIndex(t) ==
  /\ t.kind = "save" /\ t.pc = "insert"
  /\ tasks' = Finish(tasks, t)
  /\ deposit_records' =
       Append(deposit_records, NewDepositRecord(t.info, Len(deposit_records) + 1))
  /\ save_returns' = save_returns \cup {SaveReturn(t.hash, FALSE, Len(deposit_records) + 1)}
  /\ UNCHANGED <<envVars, cfgVars, cacheVars, last_block, loop_pc, pending_by_block,
                 check_age, statVars, notification_records, ppn_calls, sched,
                 delivered, notify_handoffs, ingest_log, reorg_warned, bus_log, shutVars, apiVars>>

\* the INSERT and the commit of the session; the UNIQUE index on tx_hash
\* rejects a second row, the session is rolled back and None is returned
SaveInsert(t) ==
  /\ t.kind = "save" /\ t.pc = "insert"
  /\ tasks' = Finish(tasks, t)
  /\ deposit_records' =
       IF RowOf(deposit_records, t.hash) # NoRow THEN deposit_records
       ELSE Append(deposit_records, NewDepositRecord(t.info, Len(deposit_records) + 1))
  /\ save_returns' =
       save_returns \cup {SaveReturn(t.hash, FALSE,
                                     IF RowOf(deposit_records, t.hash) # NoRow THEN NoRow
                                     ELSE Len(deposit_records) + 1)}
  /\ UNCHANGED <<envVars, cfgVars, cacheVars, last_block, loop_pc, pending_by_block,
                 check_age, statVars, notification_records, ppn_calls, sched,
                 delivered, notify_handoffs, ingest_log, reorg_warned, bus_log, shutVars, apiVars>>

\* ------------------------------------- _process_confirmed_transactions_async
\* one iteration of the loop: update_transaction_status_async on the row and,
\* if the row exists, spawn _send_notification_async
ProcUpdate(t) ==
  /\ t.kind = "proc" /\ t.attempt < Len(t.items)
  /\ LET item == t.items[t.attempt + 1]
         found == RowOf(deposit_records, item.hash) # NoRow
         u == [t EXCEPT !.attempt = @ + 1,
                        !.upd = IF found THEN Append(@, item) ELSE @]
     IN /\ tasks' = IF found
                    THEN Spawn(Step(tasks, t, u),
                               NewTask("send", item.hash, item.confirmations, NoInfo, <<>>))
                    ELSE Step(tasks, t, u)
        /\ notify_handoffs' = IF found THEN Inc(notify_handoffs, item.hash)
                              ELSE notify_handoffs
  /\ UNCHANGED <<envVars, cfgVars, cacheVars, last_block, loop_pc, pending_by_block,
                 check_age, statVars, dbVars, ppn_calls, sched, delivered, ingest_log, save_returns, reorg_warned, bus_log, shutVars, apiVars>>

RECURSIVE ApplyUpdates(_, _, _)
\* the rows after the session's UPDATEs are committed
ApplyUpdates(rows, upd, i) ==
  IF i > Len(upd) THEN rows
  ELSE LET r == RowOf(rows, upd[i].hash)
       IN ApplyUpdates([rows EXCEPT ![r].status = "confirmed",
                                    ![r].confirmations = upd[i].confirmations],
                       upd, i + 1)

\* the session of _process_confirmed_transactions_async commits
ProcCommit(t) ==
  /\ t.kind = "proc" /\ t.attempt = Len(t.items)
  /\ tasks' = Finish(tasks, t)
  /\ deposit_records' = ApplyUpdates(deposit_records, t.upd, 1)
  /\ UNCHANGED <<envVars, cfgVars, cacheVars, last_block, loop_pc, pending_by_block,
                 check_age, statVars, notification_records, ppn_calls, sched,
                 delivered, notify_handoffs, ingest_log, save_returns, reorg_warned, bus_log, shutVars, apiVars>>

\* ------------------------------------------------ _send_notification_async
\* HTTP statuses the webhook may answer; 0 stands for a timeout or a network error
Responses == {200, 201, 500, 0}

\* the query for the deposit row and the creation (add + flush) of its
\* NotificationRecord inside the session
SendStart(t) ==
  /\ t.kind = "send" /\ t.pc = "start"
  /\ LET ids == get_pending_notifications_async(t.confirmations)
         hit == SelectSeq(ids, LAMBDA i : deposit_records[i].tx_hash = t.hash)
     IN tasks' = IF hit = <<>> THEN Finish(tasks, t)
                 ELSE Step(tasks, t, [t EXCEPT !.pc = "post", !.rec = hit[1]])
  /\ UNCHANGED <<envVars, cfgVars, cacheVars, last_block, loop_pc, pending_by_block,
                 check_age, statVars, dbVars, ppn_calls, sched, delivered,
                 notify_handoffs, ingest_log, save_returns, reorg_warned, bus_log, shutVars, apiVars>>

\* NotificationService.send_notification_async: one POST of the retry loop,
\* status being response.status (0 when a timeout or a network error gave no
\* response); when the loop ends, _send_notification_async counts the result
SendPost(t) ==
  /\ t.kind = "send" /\ t.pc = "post"
  /\ \E status \in Responses :
       IF status = HttpOk
       THEN /\ tasks' = Step(tasks, t, [t EXCEPT !.attempt = @ + 1, !.ok = TRUE,
                                                 !.status = status,
                                                 !.pc = "commit"])
            /\ delivered' = Inc(delivered, t.hash)
            /\ notifications_sent' = notifications_sent + 1
            /\ UNCHANGED notification_failures
       ELSE IF t.attempt + 1 < max_retry_attempts
       THEN /\ tasks' = Step(tasks, t, [t EXCEPT !.attempt = @ + 1,
                                                 !.status = status])
            /\ UNCHANGED <<delivered, notifications_sent, notification_failures>>
       ELSE /\ tasks' = Step(tasks, t, [t EXCEPT !.attempt = @ + 1, !.status = status,
                                                 !.pc = "commit"])
            /\ notification_failures' = notification_failures + 1
            /\ UNCHANGED <<delivered, notifications_sent>>
  /\ UNCHANGED <<envVars, cfgVars, cacheVars, last_block, loop_pc, pending_by_block,
                 check_age, transactions_found, pending_added, confirmed_transactions,
                 timeout_transactions, dbVars, ppn_calls, sched, notify_handoffs,
                 ingest_log, save_returns, reorg_warned, bus_log, shutVars, apiVars>>

\* NotificationRecord.is_max_attempts_reached
is_max_attempts_reached(n) == n.attempt_count >= n.max_attempts

\* NotificationRecord.mark_as_sent
mark_as_sent(n) == [n EXCEPT !.status = "sent"]

\* NotificationRecord.mark_as_failed
mark_as_failed(n, next_retry) ==
  IF is_max_attempts_reached(n)
  THEN [n EXCEPT !.status = "failed_final", !.next_retry_at = FALSE]
  ELSE [n EXCEPT !.status = "failed", !.next_retry_at = next_retry]

\* NotificationRecord.increment_attempt
increment_attempt(n) == [n EXCEPT !.attempt_count = @ + 1]

\* mutant of NewNotificationRecord: max_attempts is left at zero
NewNotificationRecordNoMax(d, max_attempts) ==
  [deposit_record_id |-> d.id, tx_hash |-> d.tx_hash, status |-> "pending",
   attempt_count |-> 0, max_attempts |-> 0, next_retry_at |-> FALSE]

\* a new NotificationRecord for a deposit row
NewNotificationRecord(d, max_attempts) ==
  [deposit_record_id |-> d.id, tx_hash |-> d.tx_hash, status |-> "pending",
   attempt_count |-> 0, max_attempts |-> max_attempts, next_retry_at |-> FALSE]

\* the session of _send_notification_async commits: the NotificationRecord,
\* marked sent or failed, and with it the deposit's notification_generated
SendCommit(t) ==
  /\ t.kind = "send" /\ t.pc = "commit"
  /\ notification_records' =
       Append(notification_records,
              IF t.ok
              THEN mark_as_sent(NewNotificationRecord(deposit_records[t.rec],
                                                      DefaultMaxAttempts))
              ELSE mark_as_failed(NewNotificationRecord(deposit_records[t.rec],
                                                        DefaultMaxAttempts), FALSE))
  /\ deposit_records' =
       IF t.ok THEN [deposit_records EXCEPT ![t.rec].notification_generated = TRUE]
       ELSE deposit_records
  /\ tasks' = Finish(tasks, t)
  /\ UNCHANGED <<envVars, cfgVars, cacheVars, last_block, loop_pc, pending_by_block,
                 check_age, statVars, ppn_calls, sched, delivered, notify_handoffs,
                 ingest_log, save_returns, reorg_warned, bus_log, shutVars, apiVars>>

RECURSIVE SpawnSends(_, _, _)
SpawnSends(bag, ids, i) ==
  IF i > Len(ids) THEN bag
  ELSE SpawnSends(Spawn(bag, NewTask("send", deposit_records[ids[i]].tx_hash,
                                     deposit_records[ids[i]].confirmations,
                                     NoInfo, <<>>)),
                  ids, i + 1)

\* ConfirmationManager.process_pending_notifications_async
ProcessPendingNotificationsAsync ==
  /\ Events < MaxEvents
  /\ ppn_calls' = ppn_calls + 1
  /\ tasks' = SpawnSends(tasks, get_pending_notifications_async(required_confirmations), 1)
  /\ UNCHANGED <<envVars, cfgVars, cacheVars, last_block, loop_pc, pending_by_block,
                 check_age, statVars, dbVars, sched, delivered, notify_handoffs,
                 ingest_log, save_returns, reorg_warned, bus_log, shutVars, apiVars>>

\* --------------------------------------------------- notification scheduler
\* NotificationScheduler.process_pending_notifications: the query
SchedQuery ==
  /\ sched.pc = "idle" /\ Events < MaxEvents
  /\ LET ids == get_pending_notifications_async(required_confirmations)
     IN sched' = [pc |-> IF ids = <<>> THEN "idle" ELSE "send", queue |-> ids,
                  runs |-> sched.runs + 1]
  /\ UNCHANGED <<envVars, cfgVars, cacheVars, last_block, loop_pc, pending_by_block,
                 check_age, statVars, tasks, dbVars, ppn_calls, delivered,
                 notify_handoffs, ingest_log, save_returns, reorg_warned, bus_log, shutVars, apiVars>>

SchedNext(q) == [sched EXCEPT !.pc = IF Tail(q) = <<>> THEN "idle" ELSE "send",
                              !.queue = Tail(q)]

\* NotificationService.send_notification: the row after the delivery result
send_notification(n, success) ==
  LET m == increment_attempt(n)
  IN IF success THEN mark_as_sent(m)
     ELSE mark_as_failed(m, ~is_max_attempts_reached(m))

\* create_notification_record and send_notification for the next row of the
\* batch, up to the commit in send_notification.  send_notification_sync
\* either runs the POST loop ("run") or, inside a running event loop, only
\* creates a task and reports success ("task_created"); got200 tells whether
\* the webhook answered 200 to one of the POSTs.
SchedSend ==
  /\ sched.pc = "send"
  /\ \E mode \in {"run", "task_created"}, got200 \in BOOLEAN :
       LET d == deposit_records[Head(sched.queue)]
           success == mode = "task_created" \/ got200
           n == NewNotificationRecord(d, max_retry_attempts)
       IN /\ notification_records' =
               Append(notification_records, send_notification(n, success))
          /\ delivered' = IF got200 THEN Inc(delivered, d.tx_hash) ELSE delivered
          /\ sched' = IF success THEN [sched EXCEPT !.pc = "flag"]
                      ELSE SchedNext(sched.queue)
  /\ UNCHANGED <<envVars, cfgVars, cacheVars, last_block, loop_pc, pending_by_block,
                 check_age, statVars, tasks, deposit_records, ppn_calls,
                 notify_handoffs, ingest_log, save_returns, reorg_warned, bus_log, shutVars, apiVars>>

\* record.notification_generated = True and the second commit
SchedFlag ==
  /\ sched.pc = "flag"
  /\ deposit_records' =
       [deposit_records EXCEPT ![Head(sched.queue)].notification_generated = TRUE]
  /\ sched' = SchedNext(sched.queue)
  /\ UNCHANGED <<envVars, cfgVars, cacheVars, last_block, loop_pc, pending_by_block,
                 check_age, statVars, tasks, notification_records, ppn_calls,
                 delivered, notify_handoffs, ingest_log, save_returns, reorg_warned, bus_log, shutVars, apiVars>>

\* ------------------------------------------------------------ specification
\* a native transfer of 2 wei-units from A to the watched address B
TxNative(h, from, to, value) ==
  [hash |-> h, from |-> from, to |-> to, value |-> value, input |-> <<>>]

\* thresholds: 2 units of the native token, 0x100 raw units of USDT
InitThresholds == (token_name :> 2) @@ ("USDT" :> (Rep("0", 61) \o <<"1", "0", "0">>))

InitCommon ==
  /\ head = 0
  /\ head_high = 0
  /\ reorgs = 0
  /\ cached_block_number = 0
  /\ cache_age = 0
  /\ last_block = 0
  /\ loop_pc = "blocks"
  /\ pending_by_block = <<>>
  /\ check_age = confirmation_check_interval
  /\ transactions_found = 0
  /\ pending_added = 0
  /\ confirmed_transactions = 0
  /\ timeout_transactions = 0
  /\ notifications_sent = 0
  /\ notification_failures = 0
  /\ tasks = EmptyBag
  /\ deposit_records = <<>>
  /\ notification_records = <<>>
  /\ ppn_calls = 0
  /\ sched = [pc |-> "idle", queue |-> <<>>, runs |-> 0]
  /\ delivered = [h \in TxHashes |-> 0]
  /\ notify_handoffs = [h \in TxHashes |-> 0]
  /\ ingest_log = {}
  /\ save_returns = {}
  /\ reorg_warned = {}
  /\ bus_log = {}
  /\ is_running = TRUE
  /\ last_call = [op |-> "none", raised |-> FALSE]
  /\ shutdown = [pc |-> "idle", pending |-> <<>>, head |-> 0, block |-> NoBlock]

\* the pipeline with one watched transfer in block 1
Init ==
  /\ InitCommon
  /\ monitor_strategy = WATCH_ADDRESS
  /\ watch_addresses_set = {AddrB}
  /\ watch_addresses = <<AddrB>>
  /\ thresholds = InitThresholds
  /\ chain = [n \in Blocks |-> IF n = 1 THEN <<TxNative("h1", AddrA, AddrBUp, 2)>>
                               ELSE <<>>]

TaskStep ==
  \E t \in LiveTasks :
    \/ SaveSelect(t) \/ SaveInsert(t)
    \/ ProcUpdate(t) \/ ProcCommit(t)
    \/ SendStart(t) \/ SendPost(t) \/ SendCommit(t)

Next ==
  \/ HeadAdvance
  \/ HeadRetreat
  \/ Tick
  \/ ProcessNewBlocks
  \/ CheckConfirmations
  \/ PeriodicMaintenance
  \/ TaskStep
  \/ ProcessPendingNotificationsAsync
  \/ SchedQuery
  \/ SchedSend
  \/ SchedFlag

Spec == Init /\ [][Next]_vars

\* one step of the while loop of _monitoring_loop
LoopStep == ProcessNewBlocks \/ CheckConfirmations \/ PeriodicMaintenance

\* the event loop runs every task that is ready: the monitoring loop keeps
\* iterating and the tasks created with asyncio.create_task keep taking
\* steps until they end
SpecFair == Spec /\ WF_vars(TaskStep) /\ WF_vars(LoopStep)

\* ------------------------------------------- specification of the classifier
\* calldata of transfer(to, amount): selector, the address left-padded to 64
\* hex digits, the amount as 64 hex digits
TransferInput(to, amount_hex) ==
  HexPrefix \o TRANSFER_SIGNATURE \o Rep("0", 24) \o Slice(to, 2, 42) \o amount_hex

\* token amounts above, at and below the USDT threshold
AmountLarge == Rep("0", 60) \o <<"1", "0", "0", "0">>
AmountEqual == Rep("0", 61) \o <<"1", "0", "0">>
AmountSmall == Rep("0", 63) \o <<"1">>

TxToken(h, from, to, amount_hex) ==
  [hash |-> h, from |-> from, to |-> UsdtContractUp, value |-> 0,
   input |-> TransferInput(to, amount_hex)]

\* a call of the USDT contract with this calldata
TxCall(h, input) ==
  [hash |-> h, from |-> AddrA, to |-> UsdtContractUp, value |-> 0, input |-> input]

\* the address argument of transfer(B, ...), the selector in upper case and
\* another selector
ArgB == Rep("0", 24) \o Rep("B", 40)
SelectorUp == <<"A", "9", "0", "5", "9", "C", "B", "B">>
SelectorOther == <<"a", "9", "0", "5", "9", "c", "b", "c">>

\* calldata with an amount argument of 1, 63 and 66 digits, with the upper
\* case selector, without the 0x prefix, with an upper case amount and with
\* non-zero padding of the address
CalldataWellFormed ==
  {HexPrefix \o TRANSFER_SIGNATURE \o ArgB \o <<"1">>,
   HexPrefix \o TRANSFER_SIGNATURE \o ArgB \o Rep("0", 62) \o <<"1">>,
   HexPrefix \o TRANSFER_SIGNATURE \o ArgB \o AmountLarge \o <<"f", "f">>,
   HexPrefix \o SelectorUp \o ArgB \o AmountLarge,
   TRANSFER_SIGNATURE \o ArgB \o AmountLarge,
   HexPrefix \o TRANSFER_SIGNATURE \o ArgB \o Rep("0", 61) \o <<"F", "F", "F">>,
   HexPrefix \o TRANSFER_SIGNATURE \o Rep("f", 24) \o Rep("B", 40) \o AmountLarge}

\* calldata with another selector, too short, without amount argument, and
\* with characters in the recipient or the amount that are not hex digits
CalldataMalformed ==
  {HexPrefix \o SelectorOther \o ArgB \o AmountLarge,
   HexPrefix \o TRANSFER_SIGNATURE \o Rep("0", 20),
   HexPrefix \o TRANSFER_SIGNATURE \o ArgB,
   HexPrefix \o TRANSFER_SIGNATURE \o Rep("0", 24) \o <<"g">> \o Rep("b", 39) \o AmountLarge,
   HexPrefix \o TRANSFER_SIGNATURE \o Rep("0", 24) \o <<"b", "_">> \o Rep("b", 38)
     \o AmountLarge,
   HexPrefix \o TRANSFER_SIGNATURE \o Rep("0", 24) \o <<"0", "x">> \o Rep("b", 38)
     \o AmountLarge,
   HexPrefix \o TRANSFER_SIGNATURE \o ArgB \o Rep("0", 60) \o <<"g", "0", "0", "0">>}

\* the transactions block 1 may carry: native transfers and transfer() calls
\* between the accounts A and B in either spelling, self-transfers, a
\* zero-value call, a contract creation, a truncated transfer() call, a
\* transfer() call that also carries value, and calls with the calldata
\* variants above
TxShapes ==
  {TxNative("h1", from, to, 2) : from \in {AddrA, AddrBUp}, to \in {AddrA, AddrB, AddrBUp}}
  \cup {TxNative("h1", AddrA, AddrB, v) : v \in {0, 1, 3}}
  \cup {TxNative("h1", AddrA, NoAddr, 2)}
  \cup {TxToken("h1", from, to, amt) : from \in {AddrA, AddrBUp}, to \in {AddrA, AddrBUp},
                                        amt \in {AmountLarge, AmountSmall}}
  \cup {TxToken("h1", AddrA, AddrBUp, AmountEqual)}
  \cup {[hash |-> "h1", from |-> AddrA, to |-> UsdtContract, value |-> 0,
         input |-> HexPrefix \o TRANSFER_SIGNATURE \o Rep("0", 24)],
        [TxToken("h1", AddrA, AddrBUp, AmountLarge) EXCEPT !.value = 2]}
  \cup {TxCall("h1", input) : input \in CalldataWellFormed \cup CalldataMalformed}

WatchSets == {{AddrB}, {AddrA, AddrB}}

\* threshold tables: both symbols configured, or one of them missing
ThresholdMaps ==
  {InitThresholds,
   [s \in {token_name} |-> InitThresholds[s]],
   [s \in {"USDT"} |-> InitThresholds[s]]}

InitClassify ==
  /\ InitCommon
  /\ monitor_strategy \in {LARGE_AMOUNT, WATCH_ADDRESS}
  /\ watch_addresses_set \in WatchSets
  /\ watch_addresses = (IF AddrA \in watch_addresses_set THEN <<AddrA, AddrB>>
                        ELSE <<AddrB>>)
  /\ thresholds \in (IF monitor_strategy = LARGE_AMOUNT THEN ThresholdMaps
                     ELSE {InitThresholds})
  /\ \E tx \in TxShapes : chain = [n \in Blocks |-> IF n = 1 THEN <<tx>> ELSE <<>>]

SaveStep == \E t \in LiveTasks : SaveSelect(t) \/ SaveInsert(t)

\* the head loop and the save tasks it spawns
NextClassify ==
  \/ HeadAdvance
  \/ Tick
  \/ ProcessNewBlocks
  \/ CheckConfirmations
  \/ PeriodicMaintenance
  \/ SaveStep

SpecClassify == InitClassify /\ [][NextClassify]_vars

\* ----------------------------------------- specification with two blocks
\* watched transfers h1 in block 1 and h2 in block 2
InitOrder ==
  /\ InitCommon
  /\ monitor_strategy = WATCH_ADDRESS
  /\ watch_addresses_set = {AddrB}
  /\ watch_addresses = <<AddrB>>
  /\ thresholds = InitThresholds
  /\ chain = [n \in Blocks |->
                IF n = 1 THEN <<TxNative("h1", AddrA, AddrBUp, 2)>>
                ELSE IF n = 2 THEN <<TxNative("h2", AddrA, AddrB, 2)>>
                ELSE <<>>]

ProcStep == \E t \in LiveTasks : ProcUpdate(t) \/ ProcCommit(t)

\* the head, the monitoring loop and the tasks that confirm
NextOrder ==
  \/ HeadAdvance
  \/ HeadRetreat
  \/ Tick
  \/ ProcessNewBlocks
  \/ CheckConfirmations
  \/ PeriodicMaintenance
  \/ ProcStep

SpecOrder == InitOrder /\ [][NextOrder]_vars

\* ------------------------------------------- specification of the listener
\* bus messages processed in a run
MaxMessages == 1

\* a 42-character string that is not an address, and a short string
AddrNotHex == HexPrefix \o Rep("z", 40)
AddrShort == HexPrefix \o <<"1", "2">>

\* message bodies after json.loads: {"address": a} for some strings a, the
\* empty string among them, and a dict without the address key
Messages ==
  {[has_address |-> TRUE, address |-> a] :
     a \in {AddrA, AddrAUp, AddrNotHex, AddrShort, NoAddr}}
  \cup {[has_address |-> FALSE, address |-> NoAddr]}

\* AsyncRabbitMQConsumer._validate_message: the format test only logs
_validate_message(message_data) ==
  /\ message_data.has_address
  /\ message_data.address # NoAddr

\* the set after an address has been added as it is spelled
add_watch_address_exact(set, address) == set \cup {address}

\* MonitorConfig.add_watch_address, on _watch_addresses_set
add_watch_address(set, address) == set \cup {Lower(address)}

\* MonitorConfig.add_watch_address, on watch_addresses
add_watch_address_list(list, set, address) ==
  IF Lower(address) \notin set THEN Append(list, address) ELSE list

\* WalletUpdateHandler.handle_wallet_update -> EVMMonitor.add_watch_address
handle_wallet_update(message_data) ==
  /\ watch_addresses_set' = add_watch_address(watch_addresses_set, message_data.address)
  /\ watch_addresses' = add_watch_address_list(watch_addresses, watch_addresses_set,
                                               message_data.address)

\* the outcome of one message: the set before and after, whether
\* message.process() left normally (ack), and the last ingested block
BusOutcome(m, after) ==
  [msg |-> m, before |-> watch_addresses_set, after |-> after, acked |-> TRUE,
   last_block |-> last_block]

\* AsyncRabbitMQConsumer._process_message on a message that parses as JSON
ProcessMessage ==
  /\ Cardinality(bus_log) < MaxMessages
  /\ \E m \in Messages :
       /\ IF _validate_message(m) THEN handle_wallet_update(m)
          ELSE UNCHANGED <<watch_addresses_set, watch_addresses>>
       /\ bus_log' = bus_log \cup {BusOutcome(m, watch_addresses_set')}
  /\ UNCHANGED <<envVars, monitor_strategy, thresholds, cacheVars, last_block, loop_pc,
                 pending_by_block, check_age, statVars, tasks, dbVars, ppn_calls,
                 sched, delivered, notify_handoffs, ingest_log, save_returns,
                 reorg_warned, shutVars, last_call>>

\* transfers to A, native and ERC-20, from another sender and from A itself
InitBus ==
  /\ InitCommon
  /\ monitor_strategy = WATCH_ADDRESS
  /\ watch_addresses_set = {AddrB}
  /\ watch_addresses = <<AddrB>>
  /\ thresholds = InitThresholds
  /\ \E from \in {AddrBUp, AddrA} :
       chain = [n \in Blocks |->
                  IF n = 1 THEN <<TxNative("h1", from, AddrAUp, 2)>>
                  ELSE IF n = 2 THEN <<TxToken("h2", from, AddrAUp, AmountSmall)>>
                  ELSE <<>>]

\* the head, the monitoring loop, the save tasks and the listener
NextBus ==
  \/ HeadAdvance
  \/ Tick
  \/ ProcessNewBlocks
  \/ CheckConfirmations
  \/ PeriodicMaintenance
  \/ SaveStep
  \/ ProcessMessage

SpecBus == InitBus /\ [][NextBus]_vars

\* --------------------------------- specification of the configuration API
\* the variables of the monitor that the configuration API leaves alone
monitorVars == <<envVars, cacheVars, last_block, loop_pc, pending_by_block, check_age,
                 statVars, tasks, dbVars, ppn_calls, sched, delivered, notify_handoffs,
                 ingest_log, save_returns, reorg_warned, bus_log, shutVars>>

\* addresses and address lists handed to the API
ApiAddresses == {AddrA, AddrAUp, AddrB}
ApiLists == {<<>>, <<AddrA>>, <<AddrAUp, AddrB>>}

\* keyword arguments of update_thresholds
ThresholdUpdates ==
  {[token |-> token_name, threshold |-> v] : v \in {1, 3}}
  \cup {[token |-> "USDT", threshold |-> AmountLarge]}

\* MonitorConfig._update_watch_addresses_cache
_update_watch_addresses_cache(list) == {Lower(list[i]) : i \in DOMAIN list}

\* an update that does not look at the strategy
update_thresholds_any_strategy(th, strategy, u) == (u.token :> u.threshold) @@ th

\* EVMMonitor.update_thresholds: the thresholds afterwards
update_thresholds(th, strategy, u) ==
  IF strategy # LARGE_AMOUNT THEN th ELSE (u.token :> u.threshold) @@ th

ApiCall(op, raised) == last_call' = [op |-> op, raised |-> raised]

\* EVMMonitor.set_monitor_strategy
SetMonitorStrategy ==
  /\ \E strategy \in {LARGE_AMOUNT, WATCH_ADDRESS} : monitor_strategy' = strategy
  /\ ApiCall("set_monitor_strategy", FALSE)
  /\ UNCHANGED <<monitorVars, watch_addresses_set, watch_addresses, thresholds>>

\* EVMMonitor.update_thresholds
UpdateThresholds ==
  /\ \E u \in ThresholdUpdates :
       thresholds' = update_thresholds(thresholds, monitor_strategy, u)
  /\ ApiCall("update_thresholds", FALSE)
  /\ UNCHANGED <<monitorVars, monitor_strategy, watch_addresses_set, watch_addresses>>

\* MonitorConfig.update_thresholds: ValueError unless the strategy is
\* LARGE_AMOUNT
ConfigUpdateThresholds ==
  /\ \E u \in ThresholdUpdates :
       thresholds' = update_thresholds(thresholds, monitor_strategy, u)
  /\ ApiCall("config.update_thresholds", monitor_strategy # LARGE_AMOUNT)
  /\ UNCHANGED <<monitorVars, monitor_strategy, watch_addresses_set, watch_addresses>>

\* EVMMonitor.add_watch_address -> MonitorConfig.add_watch_address
AddWatchAddress ==
  /\ \E address \in ApiAddresses :
       /\ watch_addresses' = add_watch_address_list(watch_addresses,
                                                    watch_addresses_set, address)
       /\ watch_addresses_set' = add_watch_address(watch_addresses_set, address)
  /\ ApiCall("add_watch_address", FALSE)
  /\ UNCHANGED <<monitorVars, monitor_strategy, thresholds>>

\* EVMMonitor.remove_watch_address -> MonitorConfig.remove_watch_address
RemoveWatchAddress ==
  /\ \E address \in ApiAddresses :
       IF Lower(address) \in watch_addresses_set
       THEN /\ watch_addresses' =
                 SelectSeq(watch_addresses, LAMBDA a : Lower(a) # Lower(address))
            /\ watch_addresses_set' = watch_addresses_set \ {Lower(address)}
       ELSE UNCHANGED <<watch_addresses, watch_addresses_set>>
  /\ ApiCall("remove_watch_address", FALSE)
  /\ UNCHANGED <<monitorVars, monitor_strategy, thresholds>>

\* MonitorConfig.update_watch_addresses: the list is copied and the lookup
\* set rebuilt
ConfigUpdateWatchAddresses ==
  /\ \E new_addresses \in ApiLists :
       /\ watch_addresses' = new_addresses
       /\ watch_addresses_set' = _update_watch_addresses_cache(new_addresses)
  /\ ApiCall("config.update_watch_addresses", FALSE)
  /\ UNCHANGED <<monitorVars, monitor_strategy, thresholds>>

\* EVMMonitor.update_watch_addresses: self.config.watch_addresses = addresses
UpdateWatchAddresses ==
  /\ \E addresses \in ApiLists : watch_addresses' = addresses
  /\ ApiCall("update_watch_addresses", FALSE)
  /\ UNCHANGED <<monitorVars, monitor_strategy, thresholds, watch_addresses_set>>

\* EVMMonitor.update_config(watch_addresses=value): setattr on the config;
\* an unknown key is only logged
UpdateConfig ==
  /\ \/ \E value \in ApiLists : watch_addresses' = value
     \/ UNCHANGED watch_addresses
  /\ ApiCall("update_config", FALSE)
  /\ UNCHANGED <<monitorVars, monitor_strategy, thresholds, watch_addresses_set>>

InitConfigApi ==
  /\ InitCommon
  /\ monitor_strategy = WATCH_ADDRESS
  /\ watch_addresses_set = {AddrB}
  /\ watch_addresses = <<AddrB>>
  /\ thresholds = InitThresholds
  /\ chain = [n \in Blocks |-> <<>>]

NextConfigApi ==
  \/ SetMonitorStrategy
  \/ UpdateThresholds
  \/ ConfigUpdateThresholds
  \/ AddWatchAddress
  \/ RemoveWatchAddress
  \/ ConfigUpdateWatchAddresses
  \/ UpdateWatchAddresses
  \/ UpdateConfig

SpecConfigApi == InitConfigApi /\ [][NextConfigApi]_vars

\* ---------------------------------------------- specification of shutdown
\* EVMMonitor.graceful_shutdown up to its sleep: stop() clears is_running
GracefulShutdownStop ==
  /\ shutdown.pc = "idle"
  /\ is_running' = FALSE
  /\ shutdown' = [pc |-> "sleep", pending |-> pending_by_block, head |-> head,
                  block |-> NoBlock]
  /\ UNCHANGED <<envVars, cfgVars, cacheVars, last_block, loop_pc, pending_by_block,
                 check_age, statVars, tasks, dbVars, ppn_calls, sched, delivered,
                 notify_handoffs, ingest_log, save_returns, reorg_warned, bus_log,
                 apiVars>>

\* _process_new_blocks when stop() runs while block n is being fetched: the
\* blocks before n are ingested, the transaction loop of block n and the
\* block loop break on is_running, and current_block is returned
_process_new_blocks_stopped(current_block, n, failed) ==
  /\ CommitIngest(IngestBlocks([pending |-> pending_by_block,
                                found |-> transactions_found, added |-> pending_added,
                                spawned |-> tasks,
                                log |-> ingest_log, aborted |-> FALSE],
                               last_block + 1, n - 1, failed))
  /\ last_block' = current_block
  /\ is_running' = FALSE
  /\ shutdown' = [pc |-> "sleep", pending |-> pending_by_block', head |-> head,
                  block |-> n]

\* the iteration of _monitoring_loop during which graceful_shutdown starts:
\* the signal handler's task runs stop() while get_block(n) is awaited
ProcessNewBlocksStopped ==
  /\ is_running
  /\ shutdown.pc = "idle"
  /\ loop_pc = "blocks"
  /\ loop_pc' = "confirm"
  /\ \/ /\ CacheMiss
        /\ cached_block_number' = head
        /\ cache_age' = 0
        /\ \E n \in (last_block + 1)..head :
             \E failed \in SUBSET ((last_block + 1)..(n - 1)) :
               _process_new_blocks_stopped(head, n, failed)
     \/ /\ ~CacheMiss
        /\ UNCHANGED cacheVars
        /\ \E n \in (last_block + 1)..cached_block_number :
             \E failed \in SUBSET ((last_block + 1)..(n - 1)) :
               _process_new_blocks_stopped(cached_block_number, n, failed)
  /\ UNCHANGED <<envVars, cfgVars, check_age, confirmed_transactions,
                 timeout_transactions, notifications_sent, notification_failures,
                 dbVars, ppn_calls, sched, delivered, notify_handoffs, save_returns,
                 reorg_warned, bus_log, apiVars>>

\* EVMMonitor.graceful_shutdown from the end of its sleep: the last
\* check_confirmations, made when the pending index is not empty
GracefulShutdownCheck ==
  /\ shutdown.pc = "sleep"
  /\ shutdown' = [shutdown EXCEPT !.pc = "done"]
  /\ IF pending_by_block # <<>>
     THEN check_confirmations
     ELSE UNCHANGED <<envVars, cfgVars, cacheVars, last_block, pending_by_block,
                      check_age, statVars, tasks, dbVars, ppn_calls, sched, delivered,
                      notify_handoffs, ingest_log, save_returns, reorg_warned, bus_log,
                      apiVars>>
  /\ UNCHANGED <<is_running, loop_pc>>

\* the head, the monitoring loop, its tasks up to the row update, and the
\* shutdown
NextShutdown ==
  \/ HeadAdvance
  \/ Tick
  \/ ProcessNewBlocks
  \/ CheckConfirmations
  \/ PeriodicMaintenance
  \/ SaveStep
  \/ ProcStep
  \/ GracefulShutdownStop
  \/ ProcessNewBlocksStopped
  \/ GracefulShutdownCheck

SpecShutdown == Init /\ [][NextShutdown]_vars

\* ==================================================================== claims
\* rows of notification_records that belong to deposit row id
NotifsOf(rows, id) == SelectSeq(rows, LAMBDA n : n.deposit_record_id = id)

\* a NotificationRecord for tx_hash h is created in this step: a
\* _send_notification_async task adds one to its session, or the scheduler's
\* create_notification_record does
NotifCreated(h) ==
  \/ \E t \in LiveTasks :
       /\ t.hash = h
       /\ SendStart(t)
       /\ tasks' # Finish(tasks, t)
  \/ /\ SchedSend
     /\ deposit_records[Head(sched.queue)].tx_hash = h

\* the deposit_records row of tx_hash h
DepositOf(h) == deposit_records[RowOf(deposit_records, h)]

\* C1: for every tx_hash, under every interleaving of check_confirmations, the
\* _send_notification_async tasks it spawns and
\* process_pending_notifications_async (no head retreat, no scheduler run),
\* at most one webhook POST for that tx_hash is answered with success.
C1_AtMostOneSuccessfulDelivery ==
  (reorgs = 0 /\ sched.runs = 0) => \A h \in TxHashes : delivered[h] <= 1

\* C2: a DepositRecord whose notification_generated is true has a
\* NotificationRecord in status sent, and from then on no NotificationRecord
\* is created for it any more.
C2_FlagClosesDeposit ==
  /\ [](\A i \in DOMAIN deposit_records :
          deposit_records[i].notification_generated
            => \E j \in DOMAIN notification_records :
                 /\ notification_records[j].deposit_record_id = i
                 /\ notification_records[j].status = "sent")
  /\ [][\A i \in DOMAIN deposit_records :
          deposit_records[i].notification_generated
            => Len(NotifsOf(notification_records', i))
                 = Len(NotifsOf(notification_records, i))]_vars

\* C3: no committed database state has a NotificationRecord in status sent
\* whose DepositRecord has notification_generated = false.
C3_SentAndFlagInOneCommit ==
  \A j \in DOMAIN notification_records :
    notification_records[j].status = "sent"
      => deposit_records[notification_records[j].deposit_record_id].notification_generated

\* C4 as stated: whenever a NotificationRecord is created for a deposit, the
\* chain head of that moment satisfies head - block_number + 1 >= K.
C4_CreatedAtKConfirmationsOfHead ==
  [][\A h \in TxHashes :
       NotifCreated(h)
         => head - DepositOf(h).block_number + 1 >= required_confirmations]_vars

\* C4 amended: whenever a NotificationRecord is created for a deposit, the
\* deposit's committed row is confirmed with stored confirmations >= K, and
\* the endpoint has at some moment reported a head with
\* head - block_number + 1 >= K.
C4_CreatedAfterKConfirmationsSeen ==
  [][\A h \in TxHashes :
       NotifCreated(h)
         => /\ DepositOf(h).status = "confirmed"
            /\ DepositOf(h).confirmations >= required_confirmations
            /\ head_high - DepositOf(h).block_number + 1 >= required_confirmations]_vars

\* C4 witness: a NotificationRecord has been created in a task's session for
\* a deposit that has fewer than K confirmations under the head reported now
C4_Witness ==
  \E t \in LiveTasks :
    /\ t.kind = "send" /\ t.pc = "post"
    /\ head - deposit_records[t.rec].block_number + 1 < required_confirmations
    /\ deposit_records[t.rec].confirmations >= required_confirmations

\* C5: no write lowers a DepositRecord's stored confirmations.
C5_ConfirmationsNeverDecrease ==
  [][\A i \in DOMAIN deposit_records :
       deposit_records'[i].confirmations >= deposit_records[i].confirmations]_vars

\* C6: attempt_count <= max_attempts for every NotificationRecord.
C6_AttemptsWithinMax ==
  \A j \in DOMAIN notification_records :
    notification_records[j].attempt_count <= notification_records[j].max_attempts

\* C6 witness: send_notification has counted an attempt on a record and
\* marked it failed
C6_Witness ==
  \E j \in DOMAIN notification_records :
    /\ notification_records[j].attempt_count >= 1
    /\ notification_records[j].status = "failed"

\* tx_hashes the classifier has accepted so far
AcceptedHashes == {d.tx.hash : d \in {e \in ingest_log : e.saved}}

\* C7: ingesting a block again leaves one DepositRecord per tx_hash and does
\* not count its accepted transfers again.
C7_ReingestIdempotent ==
  /\ \A h \in TxHashes :
       Len(SelectSeq(deposit_records, LAMBDA r : r.tx_hash = h)) <= 1
  /\ transactions_found <= Cardinality(AcceptedHashes)

\* C8: after the reported head retreats and recovers, a confirmed record
\* stays confirmed and no tx_hash is handed to notification generation a
\* second time.
C8_OneHandoffPerTx ==
  [][\A i \in DOMAIN deposit_records :
       deposit_records[i].status = "confirmed"
         => /\ deposit_records'[i].status = "confirmed"
            /\ notify_handoffs'[deposit_records[i].tx_hash]
                 = notify_handoffs[deposit_records[i].tx_hash]]_vars

\* the transfer a transaction carries: a transfer() call to the token
\* contract moves tokens to the decoded recipient, any other transaction
\* moves its value to tx.to
RecipientOf(tx) ==
  IF parse_erc20_transfer(tx).ok THEN parse_erc20_transfer(tx).to ELSE tx.to

IsTransfer(tx) == tx.value > 0 \/ parse_erc20_transfer(tx).ok

SelfTransfer(tx) ==
  /\ IsTransfer(tx)
  /\ RecipientOf(tx) # NoAddr
  /\ Lower(tx.from) = Lower(RecipientOf(tx))

InPending(h) ==
  \E i \in DOMAIN pending_by_block :
    \E j \in DOMAIN pending_by_block[i].txs : pending_by_block[i].txs[j].hash = h

\* C9: under either strategy a transfer whose sender equals its recipient
\* gets no DepositRecord and is never inserted in the pending index.
C9_SelfTransferRejected ==
  \A d \in ingest_log :
    SelfTransfer(d.tx)
      => /\ ~d.saved
         /\ ~d.inserted
         /\ RowOf(deposit_records, d.tx.hash) = NoRow
         /\ ~InPending(d.tx.hash)

\* C10: under the WatchAddress strategy a transfer is accepted (saved and
\* inserted in the pending index) iff its lower-cased recipient is watched
\* and differs from its lower-cased sender.
C10_WatchAcceptance ==
  \A d \in ingest_log :
    (d.strategy = WATCH_ADDRESS /\ IsTransfer(d.tx))
      => ((d.saved /\ d.inserted)
            <=> (/\ Lower(RecipientOf(d.tx)) \in d.watch
                 /\ Lower(d.tx.from) # Lower(RecipientOf(d.tx))))

\* C10 witness: a transfer() call to a watched recipient has been accepted
\* and is in the pending index
C10_Witness ==
  \E d \in ingest_log :
    /\ d.strategy = WATCH_ADDRESS
    /\ parse_erc20_transfer(d.tx).ok
    /\ d.saved /\ d.inserted
    /\ InPending(d.tx.hash)

\* the amount of the transfer reaches the threshold configured for its
\* symbol; a symbol without a threshold is never reached
AmountReachesThreshold(tx, parsed, th) ==
  \/ /\ tx.value > 0
     /\ token_name \in DOMAIN th
     /\ tx.value >= th[token_name]
  \/ /\ parsed.ok
     /\ "USDT" \in DOMAIN th
     /\ HexGE(parsed.raw_amount_wei, th["USDT"])

CallHex(tx) ==
  IF StartsWith(tx.input, HexPrefix) THEN SubSeq(tx.input, 3, Len(tx.input)) ELSE tx.input

\* a call of the token contract: selector a9059cbb, a 64-hex address
\* argument and an amount argument of at least one hex digit
WellFormedCall(tx) ==
  /\ tx.to # NoAddr
  /\ Lower(tx.to) = Lower(UsdtContract)
  /\ Len(CallHex(tx)) > 72
  /\ Lower(SubSeq(CallHex(tx), 1, 8)) = TRANSFER_SIGNATURE
  /\ IsHex(SubSeq(CallHex(tx), 9, Len(CallHex(tx))))

RECURSIVE PadRight0(_)
\* the first 64 digits of s once zeros are appended to a shorter s
PadRight0(s) == IF Len(s) < 64 THEN PadRight0(Append(s, "0")) ELSE SubSeq(s, 1, 64)

\* C12: for calldata made of the selector a9059cbb, a 64-hex address argument
\* and an amount argument of one or more hex digits, parse_erc20_transfer
\* returns the recipient 0x + lower(hex[32:72]) and the amount whose value is
\* hex[72:136], a shorter amount argument being right-padded with zeros.
C12_ParseWellFormed ==
  \A d \in ingest_log :
    WellFormedCall(d.tx)
      => /\ d.parsed.ok
         /\ d.parsed.to = HexPrefix \o Lower(SubSeq(CallHex(d.tx), 33, 72))
         /\ d.parsed.raw_amount_wei
              = Lower(PadRight0(SubSeq(CallHex(d.tx), 73, Len(CallHex(d.tx)))))

\* C12 witness: a call with an amount argument of one digit has been parsed
C12_Witness ==
  \E d \in ingest_log :
    /\ WellFormedCall(d.tx)
    /\ Len(CallHex(d.tx)) = 73
    /\ d.parsed.ok

\* calldata of a call to the token contract that is too short, has another
\* selector, has no amount argument, or whose recipient is not 40 hex digits
MalformedCall(tx) ==
  /\ tx.to # NoAddr
  /\ Lower(tx.to) = Lower(UsdtContract)
  /\ tx.input # <<>>
  /\ \/ Len(CallHex(tx)) <= 72
     \/ Lower(SubSeq(CallHex(tx), 1, 8)) # TRANSFER_SIGNATURE
     \/ ~IsHex(SubSeq(CallHex(tx), 33, 72))

\* C13: parse_erc20_transfer returns no transfer for calldata shorter than 72
\* hex digits, with a selector other than a9059cbb, without amount argument
\* or with a recipient that is not 40 hex digits, and such a transaction
\* does not end the processing of its block.
C13_MalformedGivesNone ==
  \A d \in ingest_log :
    MalformedCall(d.tx) => (~d.parsed.ok /\ ~d.saved)

\* C14: in no reachable state does the pending index hold a transfer whose
\* DepositRecord has not been persisted yet.
C14_SavedBeforePending ==
  \A h \in TxHashes : InPending(h) => RowOf(deposit_records, h) # NoRow

\* C15: every transfer held in the pending index has a DepositRecord whose
\* status is 'pending'.
C15_PendingEntryHasPendingRecord ==
  \A h \in TxHashes :
    InPending(h)
      => /\ RowOf(deposit_records, h) # NoRow
         /\ deposit_records[RowOf(deposit_records, h)].status = "pending"

\* the task spawned by check_confirmations holds transfer h with c confirmations
ProcHolds(h, c) ==
  \E t \in LiveTasks :
    /\ t.kind = "proc"
    /\ \E i \in DOMAIN t.items : t.items[i] = [hash |-> h, confirmations |-> c]

\* C16: once check_confirmations has removed a block with conf >= K, every
\* transfer of the block eventually has its DepositRecord 'confirmed' with
\* confirmations = conf and has been handed to notification generation,
\* the spawned tasks being scheduled fairly.
C16_ConfirmedBlockIsUpdatedAndHandedOff ==
  \A h \in TxHashes : \A c \in 1..MaxHead :
    ProcHolds(h, c)
      ~> (/\ RowOf(deposit_records, h) # NoRow
          /\ deposit_records[RowOf(deposit_records, h)].status = "confirmed"
          /\ deposit_records[RowOf(deposit_records, h)].confirmations = c
          /\ notify_handoffs[h] > 0)

\* C17: under any interleaving of the save tasks, two tasks for one tx_hash
\* included, deposit_records holds at most one row per tx_hash.
C17_OneRowPerTxHash ==
  \A i, j \in DOMAIN deposit_records :
    deposit_records[i].tx_hash = deposit_records[j].tx_hash => i = j

\* C17 witness: a save task that found no row is about to insert while
\* another task's row for the same tx_hash is already in the table
C17_Witness ==
  \E t \in LiveTasks :
    /\ t.kind = "save" /\ t.pc = "insert"
    /\ RowOf(deposit_records, t.hash) # NoRow

C19_LastBlockOnlyPastProcessedBlocks ==
  \A n \in Blocks :
    n <= last_block
      => \A i \in DOMAIN chain[n] : \E d \in ingest_log : d.tx = chain[n][i]

\* the hashes of the transfers the tasks of a bag are to confirm
HashesToConfirm(bag) ==
  UNION {{t.items[i].hash : i \in DOMAIN t.items} :
           t \in {u \in BagToSet(bag) : u.kind = "proc"}}

\* C20: when check_confirmations computes conf = head - n + 1 <= 0 for a
\* pending block n, the entries of block n stay in the pending index
\* unchanged, and the tick modifies no DepositRecord and spawns no update
\* for those transfers.
C20_BlockAboveHeadIsKept ==
  [][(/\ loop_pc = "confirm" /\ loop_pc' = "maintenance"
      /\ check_age >= confirmation_check_interval /\ check_age' = 0)
       => \A i \in DOMAIN pending_by_block :
            cached_block_number' - pending_by_block[i].block_number + 1 <= 0
              => /\ pending_by_block[i].block_number \in reorg_warned'
                 /\ \E j \in DOMAIN pending_by_block' :
                      pending_by_block'[j] = pending_by_block[i]
                 /\ deposit_records' = deposit_records
                 /\ \A k \in DOMAIN pending_by_block[i].txs :
                      pending_by_block[i].txs[k].hash
                        \in HashesToConfirm(tasks') => pending_by_block[i].txs[k].hash
                                                        \in HashesToConfirm(tasks)]_vars

\* C20 witness: check_confirmations has just run with a cached head below a
\* pending block, which is still in the pending index
C20_Witness ==
  /\ loop_pc = "maintenance"
  /\ check_age = 0
  /\ \E i \in DOMAIN pending_by_block :
       /\ pending_by_block[i].block_number \in reorg_warned
       /\ cached_block_number - pending_by_block[i].block_number + 1 <= 0

\* C21: a DepositRecord with status 'confirmed' never returns to 'pending',
\* whatever the pipeline does: re-ingestion of its block and a retreat of
\* the reported head included.
C21_ConfirmedNeverRolledBack ==
  [][\A i \in DOMAIN deposit_records :
       deposit_records[i].status = "confirmed"
         => /\ i \in DOMAIN deposit_records'
            /\ deposit_records'[i].tx_hash = deposit_records[i].tx_hash
            /\ deposit_records'[i].status = "confirmed"]_vars

\* C21 witness: after a retreat of the head the block of a confirmed
\* DepositRecord has been ingested again and its save has run
C21_Witness ==
  /\ reorgs > 0
  /\ \E e \in save_returns :
       /\ InPending(e.hash)
       /\ RowOf(deposit_records, e.hash) # NoRow
       /\ deposit_records[RowOf(deposit_records, e.hash)].status = "confirmed"
       /\ ~\E t \in LiveTasks : t.kind = "save"

\* C22: within one check_confirmations tick the transfers are confirmed, and
\* handed to notification creation, in ascending block_number: along the
\* list of one tick the confirmations head - block_number + 1 never increase.
C22_TickInAscendingBlockOrder ==
  \A t \in LiveTasks :
    t.kind = "proc"
      => \A i, j \in DOMAIN t.items :
           i < j => t.items[i].confirmations >= t.items[j].confirmations

\* a NotificationRecord of transfer h is 'failed' with attempts remaining
FailedWithAttemptsLeft(h) ==
  \E i \in DOMAIN notification_records :
    /\ notification_records[i].tx_hash = h
    /\ notification_records[i].status = "failed"
    /\ notification_records[i].attempt_count < notification_records[i].max_attempts

\* a NotificationRecord of transfer h is 'sent' or 'failed_final'
Settled(h) ==
  \E i \in DOMAIN notification_records :
    /\ notification_records[i].tx_hash = h
    /\ notification_records[i].status \in {"sent", "failed_final"}

\* C23: a failed webhook delivery is never lost: a NotificationRecord that
\* failed with attempts remaining is eventually re-attempted, so that its
\* deposit eventually has a NotificationRecord 'sent' or 'failed_final'.
C23_FailedDeliveryIsRetried ==
  \A h \in TxHashes : FailedWithAttemptsLeft(h) ~> Settled(h)

\* the send task t commits in this step: its NotificationRecord is the new
\* last row of notification_records
SendCommits(t) ==
  /\ t.kind = "send" /\ t.pc = "commit"
  /\ tasks' = Finish(tasks, t)
  /\ Len(notification_records') = Len(notification_records) + 1

CommittedRecord == notification_records'[Len(notification_records')]

\* C24: when all webhook attempts for a notification have failed, its
\* NotificationRecord ends 'failed_final' with next_retry_at cleared, and its
\* DepositRecord stays 'confirmed' with notification_generated = false.
C24_AllAttemptsFailedIsFinal ==
  [][\A t \in LiveTasks :
       (SendCommits(t) /\ ~t.ok)
         => /\ CommittedRecord.tx_hash = t.hash
            /\ CommittedRecord.status = "failed_final"
            /\ CommittedRecord.next_retry_at = FALSE
            /\ deposit_records'[t.rec].status = "confirmed"
            /\ deposit_records'[t.rec].notification_generated
                 = deposit_records[t.rec].notification_generated]_vars

\* C25: when delivery succeeds on HTTP attempt k, the NotificationRecord ends
\* 'sent' with attempt_count = k and its DepositRecord has
\* notification_generated = true.
C25_SentRecordCountsAttempts ==
  [][\A t \in LiveTasks :
       (SendCommits(t) /\ t.ok)
         => /\ CommittedRecord.tx_hash = t.hash
            /\ CommittedRecord.status = "sent"
            /\ CommittedRecord.attempt_count = t.attempt
            /\ deposit_records'[t.rec].notification_generated]_vars

\* C26: a webhook attempt is a success exactly when the response status is
\* 2xx; any other outcome is a failed attempt, retried while attempts remain.
C26_SuccessIffStatus2xx ==
  \A t \in LiveTasks :
    (t.kind = "send" /\ t.attempt > 0)
      => /\ t.ok <=> (t.status >= 200 /\ t.status <= 299)
         /\ (~t.ok /\ t.attempt < max_retry_attempts) => t.pc = "post"

\* '0x' followed by 40 hex digits
WellFormedAddress(a) ==
  /\ Len(a) = 42
  /\ SubSeq(a, 1, 2) = HexPrefix
  /\ IsHex(SubSeq(a, 3, 42))

\* C27: a bus message whose address field is not '0x' followed by 40 hex
\* digits is dropped: the watched set is unchanged and the message is
\* acknowledged.
C27_MalformedAddressDropped ==
  \A e \in bus_log :
    (e.msg.has_address /\ ~WellFormedAddress(e.msg.address))
      => /\ e.after = e.before
         /\ e.acked

\* the block in which the chain holds transaction h
BlockOf(h) == CHOOSE n \in Blocks : \E i \in DOMAIN chain[n] : chain[n][i].hash = h

\* the recipient of an ingested transfer: the decoded one for ERC-20
RecipientIn(d) == IF d.parsed.ok THEN d.parsed.to ELSE d.tx.to

\* C28: after a valid message {address: A} has been processed, lower(A) is
\* watched, and every transfer ingested afterwards to lower(A) from another
\* sender is accepted (saved and inserted in the pending index).
C28_AddedAddressIsWatched ==
  \A e \in bus_log :
    (e.msg.has_address /\ WellFormedAddress(e.msg.address))
      => /\ Lower(e.msg.address) \in e.after
         /\ Lower(e.msg.address) \in watch_addresses_set
         /\ \A d \in ingest_log :
              (/\ d.strategy = WATCH_ADDRESS
               /\ (d.tx.value > 0 \/ d.parsed.ok)
               /\ BlockOf(d.tx.hash) > e.last_block
               /\ Lower(RecipientIn(d)) = Lower(e.msg.address)
               /\ Lower(d.tx.from) # Lower(RecipientIn(d)))
                => d.saved /\ d.inserted

\* C28 witness: a message has added A to a set that did not hold it, and
\* both a native and an ERC-20 transfer to A, ingested afterwards, are in the
\* pending index with their save tasks done
C28_Witness ==
  \E e \in bus_log :
    /\ WellFormedAddress(e.msg.address)
    /\ Lower(e.msg.address) \notin e.before
    /\ \A h \in TxHashes :
         /\ InPending(h)
         /\ RowOf(deposit_records, h) # NoRow
         /\ BlockOf(h) > e.last_block
         /\ \E d \in ingest_log :
              /\ d.tx.hash = h /\ d.saved /\ d.inserted
              /\ Lower(RecipientIn(d)) = Lower(e.msg.address)

\* C29: on shutdown the confirmation check is run once more and takes
\* effect: every transfer that was in the pending index when the shutdown
\* started, with head - block_number + 1 >= K, has been confirmed (has left
\* the pending index) when graceful_shutdown returns.
C29_ShutdownConfirmsDueTransfers ==
  shutdown.pc = "done"
    => \A i \in DOMAIN shutdown.pending :
         IsConfirmed(shutdown.head - shutdown.pending[i].block_number + 1)
           => \A j \in DOMAIN shutdown.pending[i].txs :
                ~InPending(shutdown.pending[i].txs[j].hash)

\* C30: whenever a cached head exists and is within its time to live, it is
\* at most the true chain head, so that no confirmation count computed from
\* it exceeds the true count.
C30_CachedHeadAtMostTrueHead ==
  ~CacheMiss
    => /\ cached_block_number <= head
       /\ \A i \in DOMAIN pending_by_block :
            cached_block_number - pending_by_block[i].block_number + 1
              <= head - pending_by_block[i].block_number + 1

\* the asset symbol and the contract address of an ingested transfer: the
\* chain's native symbol and no address for a native transfer, the token's
\* symbol and its contract for a transfer() call without value
AssetOf(d) ==
  IF d.parsed.ok /\ d.tx.value = 0
  THEN [token_symbol |-> d.parsed.token, token_address |-> d.parsed.contract]
  ELSE [token_symbol |-> token_name, token_address |-> NoAddr]

\* C31: the DepositRecord of every accepted transfer has the transfer's
\* asset symbol as token_symbol and the token contract (empty for native) as
\* token_address, and the webhook payload built from it carries that
\* token_symbol.
C31_RowCarriesAssetSymbol ==
  \A d \in ingest_log :
    (d.saved /\ (d.parsed.ok <=> d.tx.value = 0)
       /\ RowOf(deposit_records, d.tx.hash) # NoRow)
      => LET row == deposit_records[RowOf(deposit_records, d.tx.hash)]
         IN /\ row.token_symbol = AssetOf(d).token_symbol
            /\ Lower(row.token_address) = Lower(AssetOf(d).token_address)
            /\ _build_notification_data(row, required_confirmations).token_symbol
                 = AssetOf(d).token_symbol

\* the pending index without the transfers that are Old: the others stay in
\* their block in the original order, a block left empty is dropped
PurgeResult(pend, Old(_)) ==
  SelectSeq([i \in DOMAIN pend |->
               [pend[i] EXCEPT !.txs = SelectSeq(@, LAMBDA e : ~Old(e))]],
            LAMBDA b : b.txs # <<>>)

RECURSIVE PendingCount(_, _)
PendingCount(pend, i) ==
  IF i > Len(pend) THEN 0 ELSE Len(pend[i].txs) + PendingCount(pend, i + 1)

\* now - found_at > transaction_timeout
OlderThanTimeout(e) == e.age > transaction_timeout
\* now - found_at >= transaction_timeout
AtLeastTimeout(e) == e.age >= transaction_timeout

\* a step of _periodic_maintenance in which the purge has removed a transfer
PurgeStep ==
  /\ loop_pc = "maintenance" /\ loop_pc' = "blocks"
  /\ pending_by_block' # pending_by_block

\* C32 as stated: cleanup_timeout_transactions removes exactly the transfers
\* with now - found_at > transaction_timeout, keeps the others in order,
\* adds the number removed to timeout_transactions and changes no
\* DepositRecord.
C32_PurgeRemovesOlderThanTimeout ==
  [][PurgeStep
       => /\ pending_by_block' = PurgeResult(pending_by_block, OlderThanTimeout)
          /\ timeout_transactions' = timeout_transactions
               + PendingCount(pending_by_block, 1) - PendingCount(pending_by_block', 1)
          /\ deposit_records' = deposit_records]_vars

\* C32 amended: cleanup_timeout_transactions removes exactly the transfers
\* with now - found_at >= transaction_timeout, keeps the others in order,
\* adds the number removed to timeout_transactions and changes no
\* DepositRecord.
C32_PurgeRemovesFromTimeoutOn ==
  [][PurgeStep
       => /\ pending_by_block' = PurgeResult(pending_by_block, AtLeastTimeout)
          /\ timeout_transactions' = timeout_transactions
               + PendingCount(pending_by_block, 1) - PendingCount(pending_by_block', 1)
          /\ deposit_records' = deposit_records]_vars

\* C32 witness: the purge has evicted h1, whose DepositRecord is still
\* 'pending'
C32_Witness ==
  /\ timeout_transactions > 0
  /\ ~InPending("h1")
  /\ RowOf(deposit_records, "h1") # NoRow
  /\ deposit_records[RowOf(deposit_records, "h1")].status = "pending"

\* C33: attempt_count is incremented before the HTTP request of each
\* attempt: once a delivery has made k requests, a committed
\* NotificationRecord of the transfer counts at least k attempts, and every
\* record that is 'sent' or 'failed' counts at least one.
C33_AttemptCountedBeforeRequest ==
  /\ \A t \in LiveTasks :
       (t.kind = "send" /\ t.attempt > 0)
         => \E i \in DOMAIN notification_records :
              /\ notification_records[i].tx_hash = t.hash
              /\ notification_records[i].attempt_count >= t.attempt
  /\ \A i \in DOMAIN notification_records :
       notification_records[i].status \in {"sent", "failed", "failed_final"}
         => notification_records[i].attempt_count >= 1

\* C34: when stop() is called while a block is being processed, the loop
\* finishes that block: every transaction of the block is classified and
\* ingested before the monitoring loop exits.
C34_StoppedLoopFinishesItsBlock ==
  shutdown.block # NoBlock
    => \A i \in DOMAIN chain[shutdown.block] :
         \E d \in ingest_log : d.tx = chain[shutdown.block][i]

\* a step of _process_new_blocks in which the head fetch fails: the cache
\* has to be refreshed and is not
HeadFetchFails ==
  /\ loop_pc = "blocks" /\ loop_pc' = "confirm"
  /\ CacheMiss
  /\ cached_block_number' = cached_block_number
  /\ cache_age' = cache_age

\* C35: when the head fetch fails at the start of _process_new_blocks, the
\* call returns the last_block it was given, fetches no block and adds no
\* entry to the pending index.
C35_FailedHeadFetchChangesNothing ==
  [][HeadFetchFails
       => /\ last_block' = last_block
          /\ pending_by_block' = pending_by_block
          /\ ingest_log' = ingest_log
          /\ transactions_found' = transactions_found
          /\ tasks' = tasks]_vars

\* C35 witness: the loop is past a _process_new_blocks whose head fetch
\* failed while blocks were due: the cursor is behind the head and behind
\* the stale cached head
C35_Witness ==
  /\ loop_pc = "confirm"
  /\ CacheMiss
  /\ last_block < cached_block_number
  /\ last_block < head

\* C36: EVMMonitor.update_thresholds under the WatchAddress strategy leaves
\* the thresholds as they are and raises nothing.
C36_UpdateThresholdsIgnoredWhenWatching ==
  [][(last_call'.op = "update_thresholds" /\ monitor_strategy = WATCH_ADDRESS)
       => /\ thresholds' = thresholds
          /\ ~last_call'.raised]_vars

\* C36 witness: update_thresholds has just been called under WatchAddress,
\* on thresholds that an earlier call under LargeAmount had changed
C36_Witness ==
  /\ last_call.op = "update_thresholds"
  /\ ~last_call.raised
  /\ monitor_strategy = WATCH_ADDRESS
  /\ thresholds # InitThresholds

\* C38: the lookup set of is_watched_address is the set of the lower-cased
\* entries of the watch_addresses list.
C38_LookupSetMatchesList ==
  watch_addresses_set = {Lower(watch_addresses[i]) : i \in DOMAIN watch_addresses}

\* C37: the cursor last_block never decreases, whatever head value the RPC
\* reports.
C37_CursorNeverDecreases == [][last_block' >= last_block]_vars

\* C39: the transfers inserted by add_pending_transaction are the pending
\* ones plus the confirmed ones plus the evicted ones.
C39_InsertedArePendingConfirmedOrEvicted ==
  pending_added = PendingCount(pending_by_block, 1) + confirmed_transactions
                    + timeout_transactions

\* C39 witness: two transfers were inserted, one has been confirmed and one
\* evicted by age
C39_Witness ==
  /\ pending_added >= 2
  /\ confirmed_transactions > 0
  /\ timeout_transactions > 0

====
